---------------------------- MODULE Spec2Model ----------------------------
(***************************************************************************)
(* LEX (Lender Eligibility X): the query state machine of app.py, with its *)
(* lender resolver, the upload cache, the readiness wait, the chat session *)
(* and the interaction log, over one UI session store (st.session_state).  *)
(*                                                                         *)
(* Text is modelled as a sequence of one-character strings, so that the    *)
(* regular expressions, strip(), lower() and title() act on characters.    *)
(* A fixed literal of the source (an error sentence, the system prompt) is *)
(* one element of such a sequence.  Python's None is the value None below: *)
(* a sequence no text is equal to.                                         *)
(***************************************************************************)
EXTENDS Integers, Sequences, FiniteSets, TLC

(***************************************************************************)
(* Bounds of the model                                                     *)
(***************************************************************************)
\* queries submitted in one behaviour
MaxQueries == 2
\* modification times of a PDF file range over 0..MaxMtime
MaxMtime == 1
\* lenders picked in the sidebar multiselect
MaxSelected == 1
\* SpecWait: timeouts passed to wait_for_file_active range over 0..MaxTimeout
MaxTimeout == 6
\* SpecWait: time a status request may take beyond the sleep, 0..MaxLatency
MaxLatency == 1

(***************************************************************************)
(* Program constants                                                       *)
(***************************************************************************)
\* wait_for_file_active(file_obj, timeout: float = 120)
DefaultTimeout == 120
\* time.sleep(2)
PollInterval == 2

(***************************************************************************)
(* Characters and text                                                     *)
(***************************************************************************)
None == <<"<None>">>

LowerLetters ==
  <<"a","b","c","d","e","f","g","h","i","j","k","l","m",
    "n","o","p","q","r","s","t","u","v","w","x","y","z">>

UpperLetters ==
  <<"A","B","C","D","E","F","G","H","I","J","K","L","M",
    "N","O","P","Q","R","S","T","U","V","W","X","Y","Z">>

Digits == {"0","1","2","3","4","5","6","7","8","9"}

Range(s) == {s[i] : i \in DOMAIN s}

IsLower(c) == c \in Range(LowerLetters)
IsUpper(c) == c \in Range(UpperLetters)
IsLetter(c) == IsLower(c) \/ IsUpper(c)

\* str.lower() on one character
LowerChar(c) ==
  IF IsUpper(c)
    THEN LowerLetters[CHOOSE i \in DOMAIN UpperLetters : UpperLetters[i] = c]
    ELSE c

\* str.upper() on one character
UpperChar(c) ==
  IF IsLower(c)
    THEN UpperLetters[CHOOSE i \in DOMAIN LowerLetters : LowerLetters[i] = c]
    ELSE c

\* str.lower()
Lower(s) == [i \in DOMAIN s |-> LowerChar(s[i])]

\* the class \s of the regular expressions, and the characters strip() removes
IsSpace(c) == c \in {" ", "\n", "\t"}

\* the class \w of the regular expressions
IsWord(c) == IsLetter(c) \/ c \in Digits \/ c = "_"

\* str.strip()
Strip(s) ==
  LET keep == {i \in DOMAIN s : ~IsSpace(s[i])}
  IN  IF keep = {} THEN <<>>
      ELSE SubSeq(s, CHOOSE i \in keep : \A j \in keep : i <= j,
                     CHOOSE i \in keep : \A j \in keep : j <= i)

\* Python truthiness of an Optional[str]: neither None nor ""
Truthy(x) == x # None /\ x # <<>>

\* str.title(): a letter is upper-cased after a character that is not a
\* letter (or at the start) and lower-cased after a letter
Title(s) ==
  [i \in DOMAIN s |->
     IF ~IsLetter(s[i]) THEN s[i]
     ELSE IF i = 1 \/ ~IsLetter(s[i - 1]) THEN UpperChar(s[i])
     ELSE LowerChar(s[i])]

\* str.replace("_", " ")
ReplaceUnderscore(s) == [i \in DOMAIN s |-> IF s[i] = "_" THEN " " ELSE s[i]]

\* sep.join(items)
RECURSIVE Join(_, _)
Join(items, sep) ==
  IF items = <<>> THEN <<>>
  ELSE IF Len(items) = 1 THEN items[1]
  ELSE items[1] \o sep \o Join(Tail(items), sep)

(***************************************************************************)
(* Lender resolver                                                         *)
(***************************************************************************)
IsKeyChar(c) == IsLower(c) \/ c \in Digits

\* re.sub(r"[^a-z0-9]", "", value.lower())
normalize_lender_key(value) == SelectSeq(Lower(value), IsKeyChar)

\* sorted(pdf_dir.glob("*.pdf")): the stems of the PDF files of the
\* directory, in sorted order.  A path is identified with its stem.
DirListing == << <<"A","c">>, <<"m","_","f">> >>

Paths == Range(DirListing)

\* index_lender_pdfs: later files of the sorted listing overwrite earlier
\* ones that normalize to the same key
index_lender_pdfs(listing) ==
  LET keys == {normalize_lender_key(listing[i]) : i \in DOMAIN listing}
  IN  [k \in keys |->
         LET at == {i \in DOMAIN listing : normalize_lender_key(listing[i]) = k}
         IN  listing[CHOOSE i \in at : \A j \in at : j <= i]]

lender_index == index_lender_pdfs(DirListing)

\* get_lender_display_names, as the set of the multiselect's options
get_lender_display_names(index) ==
  {Title(ReplaceUnderscore(index[k])) : k \in DOMAIN index}

\* format_lenders_for_input
format_lenders_for_input(names) == <<"(">> \o Join(names, <<",", " ">>) \o <<")">>

\* index of the first ")" after position i, or 0
FirstClose(raw, i) ==
  LET js == {j \in DOMAIN raw : j > i /\ raw[j] = ")"}
  IN  IF js = {} THEN 0 ELSE CHOOSE j \in js : \A k \in js : j <= k

\* re.search(r"\(([^)]+)\)", raw): the positions <<start, end>> of the
\* leftmost "(" followed by at least one character other than ")" and
\* then ")"; <<0, 0>> when there is no match
GroupMatch(raw) ==
  LET starts == {i \in DOMAIN raw : raw[i] = "(" /\ FirstClose(raw, i) >= i + 2}
  IN  IF starts = {} THEN <<0, 0>>
      ELSE LET i == CHOOSE i \in starts : \A k \in starts : i <= k
           IN  <<i, FirstClose(raw, i)>>

\* \s* from position i: the first position at or after i that holds no
\* white space (Len(s) + 1 when the white space runs to the end)
SkipSpace(s, i) ==
  LET stops == {j \in i..Len(s) : ~IsSpace(s[j])}
  IN  IF stops = {} THEN Len(s) + 1
      ELSE CHOOSE j \in stops : \A k \in stops : j <= k

\* \bword\b at position k, ignoring case
WordAt(s, k, word) ==
  /\ k + Len(word) - 1 <= Len(s)
  /\ \A i \in DOMAIN word : LowerChar(s[k + i - 1]) = word[i]
  /\ (k = 1 \/ ~IsWord(s[k - 1]))
  /\ (k + Len(word) > Len(s) \/ ~IsWord(s[k + Len(word)]))

\* a delimiter pattern that knows the comma only
DelimLenAt_comma(s, k) == IF k <= Len(s) /\ s[k] = "," THEN 1 ELSE 0

\* (?:,|/|&|\band\b|\bor\b|\+) at position k: the length matched, or 0
DelimLenAt(s, k) ==
  IF k > Len(s) THEN 0
  ELSE IF s[k] \in {",", "/", "&"} THEN 1
  ELSE IF WordAt(s, k, <<"a","n","d">>) THEN 3
  ELSE IF WordAt(s, k, <<"o","r">>) THEN 2
  ELSE IF s[k] = "+" THEN 1
  ELSE 0

\* LENDER_SPLIT_PATTERN matched at position i: the position after the
\* match, or 0 when the pattern does not match there
SplitMatchEnd(s, i) ==
  LET k == SkipSpace(s, i)
      d == DelimLenAt(s, k)
  IN  IF d = 0 THEN 0 ELSE SkipSpace(s, k + d)

\* LENDER_SPLIT_PATTERN.split(s) from position pos on
RECURSIVE SplitFrom(_, _)
SplitFrom(s, pos) ==
  LET hits == {i \in pos..Len(s) : SplitMatchEnd(s, i) # 0}
  IN  IF hits = {} THEN << SubSeq(s, pos, Len(s)) >>
      ELSE LET i == CHOOSE i \in hits : \A k \in hits : i <= k
           IN  << SubSeq(s, pos, i - 1) >> \o SplitFrom(s, SplitMatchEnd(s, i))

LENDER_SPLIT_PATTERN_split(s) == SplitFrom(s, 1)

\* [token.strip() for token in tokens if token.strip()]
RECURSIVE StripTokens(_)
StripTokens(tokens) ==
  IF tokens = <<>> THEN <<>>
  ELSE LET t == Strip(Head(tokens))
       IN  (IF t = <<>> THEN <<>> ELSE <<t>>) \o StripTokens(Tail(tokens))

\* parse_lenders_and_question: <<lenders, question>>
parse_lenders_and_question(raw) ==
  LET m == GroupMatch(raw)
  IN  IF m[1] = 0 THEN << <<>>, Strip(raw) >>
      ELSE << StripTokens(LENDER_SPLIT_PATTERN_split(SubSeq(raw, m[1] + 1, m[2] - 1))),
              Strip(SubSeq(raw, 1, m[1] - 1) \o SubSeq(raw, m[2] + 1, Len(raw))) >>

\* a find_lender_files that looks the lenders up as they are written
find_lender_files_raw(lenders, index) ==
  LET Known(lender) == lender \in DOMAIN index
      Unknown(lender) == lender \notin DOMAIN index
      known == SelectSeq(lenders, Known)
  IN  << [i \in DOMAIN known |-> <<known[i], index[known[i]]>>],
         SelectSeq(lenders, Unknown) >>

\* find_lender_files: <<found, missing>>, found a sequence of <<lender, path>>
RECURSIVE find_lender_files(_, _)
find_lender_files(lenders, index) ==
  IF lenders = <<>> THEN << <<>>, <<>> >>
  ELSE LET lender == Head(lenders)
           key == normalize_lender_key(lender)
           rest == find_lender_files(Tail(lenders), index)
       IN  IF key \in DOMAIN index
             THEN << << <<lender, index[key]>> >> \o rest[1], rest[2] >>
             ELSE << rest[1], <<lender>> \o rest[2] >>

(***************************************************************************)
(* Configuration (config.py) and the inputs the model draws from           *)
(***************************************************************************)
\* config.get_admin_email_domain(): os.getenv("ADMIN_EMAIL_DOMAIN", "@admin.lex")
ADMIN_EMAIL_DOMAIN == <<"@","a","d","m","i","n",".","l","e","x">>

\* config.get_app_password(): os.getenv("APP_PASSWORD", "lex444")
DEFAULT_PASSWORD == <<"l","e","x","4","4","4">>

\* config.get_gemini_api_key(), here a configured key
default_api_key == <<"k","1">>

\* config.get_model_name(): os.getenv("GEMINI_MODEL_NAME", ...); the
\* variable may be set to the empty string
DefaultModelNames == { <<"m","o","d","e","l","s","/","g">>, <<>> }

\* what is typed in the login form
Emails == { <<"b","@","m",".","c">>,
            <<"R","@","a","d","m","i","n",".","l","e","x">>,
            <<>> }
Passwords == { DEFAULT_PASSWORD, <<"x">> }

\* what the sidebar offers for the API key and the model
ApiKeyInputs == { <<>>, <<"k","2">> }
ModelInputs == { <<>>, <<"h">> }

\* what is typed in the chat input
RawInputs ==
  { <<"(","A","c",","," ","m"," ","f",")"," ","q","?">>,
    <<"(","A","c",","," ","z","z",")"," ","q","?">>,
    <<"(","z","z",")">>,
    <<"q","?">>,
    <<"(","a","c",")"," ">> }

\* response.text of a model response
ResponseTexts ==
  { None, <<>>, <<" ">>, <<"6">>, <<" ","6","\n">> }

\* file.state of a provider file handle; "NONE" stands for a handle with no
\* state or with a falsy one
HandleStates == {"NONE", "PROCESSING", "ACTIVE", "FAILED"}

(***************************************************************************)
(* Exceptions: the Python class, the error kind of the design, str(exc),   *)
(* and the lender names a LendersNotFound carries                          *)
(***************************************************************************)
Exc(type, kind, msg, names) ==
  [type |-> type, kind |-> kind, msg |-> msg, names |-> names]

NoExc == Exc("none", "none", <<>>, <<>>)

\* what a call of the provider's API may raise
ProviderExceptions ==
  { Exc("Exception", "ProviderCallFailed", <<>>, <<>>),
    Exc("Exception", "ProviderCallFailed", <<"quota exceeded">>, <<>>) }

\* what a call of the provider's API does: it raises, or returns a file
\* handle in some state, or returns a response with some text
Outcome(exc, state, text) == [exc |-> exc, state |-> state, text |-> text]

FileResults ==
  {Outcome(e, "NONE", None) : e \in ProviderExceptions}
    \cup {Outcome(NoExc, st, None) : st \in HandleStates}

SendResults ==
  {Outcome(e, "NONE", None) : e \in ProviderExceptions}
    \cup {Outcome(NoExc, "NONE", t) : t \in ResponseTexts}

NoLendersError ==
  Exc("ValueError", "NoLendersSpecified",
      <<"Please select lenders from the dropdown or include lender names in parentheses">>,
      <<>>)

NoQuestionError ==
  Exc("ValueError", "NoQuestionText",
      <<"Please include a question after the lender list.">>, <<>>)

MissingError(missing) ==
  Exc("FileNotFoundError", "LendersNotFound",
      <<"Missing PDF files for: ">> \o Join(missing, <<",", " ">>)
        \o <<". Check the sidebar list to see available lenders.">>,
      missing)

NoModelError ==
  Exc("ValueError", "NoModelSelected",
      <<"Select a Gemini model in the sidebar before submitting.">>, <<>>)

WaitTimeoutError(h) ==
  Exc("TimeoutError", "Timeout",
      <<"Timed out while waiting for ">> \o h.display_name \o <<" to process.">>,
      <<>>)

RejectedError(h) ==
  Exc("RuntimeError", "ProviderRejected",
      <<"Gemini reported '", h.state, "' for ">> \o h.display_name \o <<".">>,
      <<>>)

FallbackSentence ==
  <<"I apologize, but I couldn't generate a response. Please try rephrasing your question.">>

\* the system instruction, abridged to its first words
LEX_SYSTEM_PROMPT == <<"You are LEX (Lender Eligibility X), ...">>

\* f"{LEX_SYSTEM_PROMPT}\n\nUser Question: {question}"
enhanced_question(question) ==
  LEX_SYSTEM_PROMPT \o <<"\n", "\n", "User Question: ">> \o question

\* a part of a turn: a file handle of the provider, or a text
FilePart(h) == [kind |-> "file", file |-> h, text |-> <<>>]
TextPart(text) ==
  [kind |-> "text",
   file |-> [name |-> 0, state |-> "NONE", display_name |-> <<>>,
             by |-> None],
   text |-> text]

\* a turn that puts the text before the files
MessageParts_textfirst(uploads, question) ==
  <<TextPart(enhanced_question(question))>>
    \o [i \in DOMAIN uploads |-> FilePart(uploads[i])]

\* parts = list(uploads) + [enhanced_question]
MessageParts(uploads, question) ==
  [i \in DOMAIN uploads |-> FilePart(uploads[i])]
    \o <<TextPart(enhanced_question(question))>>

(***************************************************************************)
(* State                                                                   *)
(***************************************************************************)
VARIABLES
  \* st.session_state
  authenticated, user_email, is_admin, show_admin, messages,
  upload_cache, chat_session, chat_session_key, interaction_logs,
  active_api_key, selected_model,
  \* the file system: st_mtime of each PDF
  mtime,
  \* the position of the query handler and its locals
  pc, prompt, lenders, question, lender_paths, model_name, uploads,
  response_text, failure, shown,
  \* upload_pdf_with_cache and wait_for_file_active: locals and parameters
  path_mtime, current, timeout, elapsed, max_latency, raised,
  \* history variables: calls made to the provider
  upload_calls, status_polls, effects, last_call, queries, ever_cleared,
  \* the frame of a function called on its own: its arguments and result
  frame

session == <<authenticated, user_email, is_admin, show_admin, messages,
             upload_cache, chat_session, chat_session_key, interaction_logs,
             active_api_key, selected_model>>
handler == <<pc, prompt, lenders, question, lender_paths, model_name, uploads,
             response_text, failure, shown>>
waiting == <<path_mtime, current, timeout, elapsed, max_latency, raised>>
history == <<upload_calls, status_polls, effects, last_call, queries, ever_cleared>>
vars == <<session, mtime, handler, waiting, history, frame>>

NoHandle == [name |-> 0, state |-> "NONE", display_name |-> <<>>, by |-> None]
NoEntry == [file |-> NoHandle, mtime |-> -1]
NoChat == [id |-> 0, turns |-> 0, by |-> None]
NoEffects ==
  [uploads |-> 0, polled |-> FALSE, chats |-> 0, sends |-> 0, parts |-> <<>>]
NoCall == [called |-> FALSE, mtime |-> -1, uploaded |-> FALSE, returned |-> FALSE]
NoResponse == <<"<NoResponse>">>
NoFrame == [fn |-> "none"]
NothingShown == [kind |-> "none", text |-> <<>>]

\* the handler is not running: the page is rendered and waits for input
AtRest == pc \in {"Idle", "Answered", "Failed"}

\* main(): the chat interface is rendered down to the chat input
ChatRendered ==
  /\ authenticated
  /\ ~(show_admin /\ is_admin)
  /\ Truthy(active_api_key)

(***************************************************************************)
(* Helpers of the handlers                                                 *)
(***************************************************************************)
\* str.endswith
EndsWith(s, suffix) ==
  /\ Len(suffix) <= Len(s)
  /\ SubSeq(s, Len(s) - Len(suffix) + 1, Len(s)) = suffix

\* normalize_model_name
normalize_model_name(value) ==
  LET name == Strip(value)
  IN  IF name = <<>> THEN name
      ELSE IF "/" \notin Range(name) THEN <<"m","o","d","e","l","s","/">> \o name
      ELSE name

\* the entry log_interaction appends (the timestamp is left out)
log_interaction(email, text, response, error) ==
  [user_email |-> email,
   prompt |-> text,
   response |-> IF ~Truthy(error) THEN response ELSE None,
   error |-> error]

\* an upload_pdf_with_cache that does not compare the modification times
CacheHit_anymtime(cache, path, m) == cache[path] # NoEntry

\* upload_pdf_with_cache: "cached and cached.get('mtime') == mtime"
CacheHit(cache, path, m) ==
  cache[path] # NoEntry /\ cache[path].mtime = m

\* wait_for_file_active: the condition of the while loop
StillProcessing(h) == h.state # "NONE" /\ h.state = "PROCESSING"

\* a wait_for_file_active that allows one interval more than the timeout
TimedOut_late(e, t) == e > t + 2

\* wait_for_file_active: "time.time() - start > timeout"
TimedOut(e, t) == e > t

\* a wait_for_file_active that forgets the check after the loop
NotActive_unchecked(h) == FALSE

\* wait_for_file_active: the condition of the RuntimeError after the loop
NotActive(h) == h.state # "NONE" /\ h.state # "ACTIVE"

\* ensure_chat_session: f"{user_email}:{api_key}:{model_name}"
SessionKey(email, api_key, model) ==
  email \o <<":">> \o api_key \o <<":">> \o model

\* an ensure_chat_session that does not compare the keys
NeedsNewChat_firstonly(chat, stored_key, key) == chat = NoChat

\* ensure_chat_session: the condition under which a chat is started
NeedsNewChat(chat, stored_key, key) ==
  chat = NoChat \/ stored_key # key

\* an answer_with_gemini that does not strip the response text
answer_text_unstripped(text) ==
  IF Strip(IF Truthy(text) THEN text ELSE <<>>) = <<>> THEN FallbackSentence
  ELSE text

\* an answer_with_gemini without the fallback sentence
answer_text_nofallback(text) == Strip(IF Truthy(text) THEN text ELSE <<>>)

\* answer_with_gemini: the text returned for response.text
answer_text(text) ==
  LET stripped == Strip(IF Truthy(text) THEN text ELSE <<>>)
  IN  IF stripped = <<>> THEN FallbackSentence ELSE stripped

\* main_chat_interface: what st.error shows in each except branch
ErrorShown(exc) ==
  [kind |-> "error",
   text |-> IF exc.type = "TimeoutError"
              THEN <<"File processing timed out: ">> \o exc.msg
            ELSE IF exc.type = "FileNotFoundError" THEN exc.msg
            ELSE <<"Something went wrong: ">> \o exc.msg]

\* a main_chat_interface that does not check the missing lenders
Resolve_unchecked(raw, selected, model) ==
  LET parsed == parse_lenders_and_question(raw)
      use_selected == parsed[1] = <<>> /\ selected # <<>>
      ls == IF use_selected THEN selected ELSE parsed[1]
      q == IF use_selected THEN Strip(raw) ELSE parsed[2]
      fm == find_lender_files(ls, lender_index)
  IN  [lenders |-> ls,
       question |-> q,
       matched |-> fm[1],
       exc |-> IF ls = <<>> THEN NoLendersError
               ELSE IF q = <<>> THEN NoQuestionError
               ELSE IF model = <<>> THEN NoModelError
               ELSE NoExc]

\* a handler that looks the lenders up before it checks the question
Resolve_reordered(raw, selected, model) ==
  LET parsed == parse_lenders_and_question(raw)
      use_selected == parsed[1] = <<>> /\ selected # <<>>
      ls == IF use_selected THEN selected ELSE parsed[1]
      q == IF use_selected THEN Strip(raw) ELSE parsed[2]
      fm == find_lender_files(ls, lender_index)
  IN  [lenders |-> ls,
       question |-> q,
       matched |-> fm[1],
       exc |-> IF ls = <<>> THEN NoLendersError
               ELSE IF fm[2] # <<>> THEN MissingError(fm[2])
               ELSE IF q = <<>> THEN NoQuestionError
               ELSE IF model = <<>> THEN NoModelError
               ELSE NoExc]

\* main_chat_interface, from parse_lenders_and_question to the check of the
\* model name: the lenders, the question, the matched files and the
\* exception raised (NoExc when the query goes on to answer_with_gemini)
Resolve(raw, selected, model) ==
  LET parsed == parse_lenders_and_question(raw)
      use_selected == parsed[1] = <<>> /\ selected # <<>>
      ls == IF use_selected THEN selected ELSE parsed[1]
      q == IF use_selected THEN Strip(raw) ELSE parsed[2]
      fm == find_lender_files(ls, lender_index)
  IN  [lenders |-> ls,
       question |-> q,
       matched |-> fm[1],
       exc |-> IF ls = <<>> THEN NoLendersError
               ELSE IF q = <<>> THEN NoQuestionError
               ELSE IF fm[2] # <<>> THEN MissingError(fm[2])
               ELSE IF model = <<>> THEN NoModelError
               ELSE NoExc]

\* the choices of st.multiselect: sequences of distinct display names
SelectedChoices ==
  LET names == get_lender_display_names(lender_index)
  IN  UNION { {f \in [1..n -> names] : \A i, j \in 1..n : f[i] = f[j] => i = j}
              : n \in 0..MaxSelected }

(***************************************************************************)
(* Initial state: a fresh session store, nobody logged in                  *)
(***************************************************************************)
SessionStart ==
  /\ authenticated = FALSE
  /\ user_email = None
  /\ is_admin = FALSE
  /\ show_admin = FALSE
  /\ messages = <<>>
  /\ upload_cache = [p \in Paths |-> NoEntry]
  /\ chat_session = NoChat
  /\ chat_session_key = None
  /\ interaction_logs = <<>>
  /\ active_api_key = default_api_key
  /\ selected_model \in {normalize_model_name(d) : d \in DefaultModelNames}
  /\ mtime = [p \in Paths |-> 0]
  /\ pc = "Idle"
  /\ prompt = <<>>
  /\ lenders = <<>>
  /\ question = <<>>
  /\ lender_paths = <<>>
  /\ model_name = <<>>
  /\ uploads = <<>>
  /\ response_text = NoResponse
  /\ failure = NoExc
  /\ shown = NothingShown
  /\ path_mtime = -1
  /\ current = NoHandle
  /\ timeout = DefaultTimeout
  /\ elapsed = 0
  /\ max_latency = 0
  /\ raised = NoExc
  /\ upload_calls = 0
  /\ status_polls = 0
  /\ effects = NoEffects
  /\ last_call = [p \in Paths |-> NoCall]
  /\ queries = 0
  /\ ever_cleared = FALSE

\* no function is called on its own
Init == SessionStart /\ frame = NoFrame

\* a rerun of the script renders the page anew: the locals of the last
\* query are gone
HandlerReset ==
  /\ pc' = "Idle"
  /\ prompt' = <<>>
  /\ lenders' = <<>>
  /\ question' = <<>>
  /\ lender_paths' = <<>>
  /\ model_name' = <<>>
  /\ uploads' = <<>>
  /\ response_text' = NoResponse
  /\ failure' = NoExc
  /\ shown' = NothingShown
  /\ effects' = NoEffects

(***************************************************************************)
(* The pages' widgets                                                      *)
(***************************************************************************)
\* a login that keeps the privilege of the identity logged in before
Login_stickyadmin(email, password) ==
  /\ AtRest
  /\ ~authenticated
  /\ IF password = DEFAULT_PASSWORD /\ email # <<>>
       THEN /\ authenticated' = TRUE
            /\ user_email' = Lower(email)
            /\ is_admin' = (is_admin \/ EndsWith(Lower(email), ADMIN_EMAIL_DOMAIN))
       ELSE UNCHANGED <<authenticated, user_email, is_admin>>
  /\ HandlerReset
  /\ UNCHANGED <<show_admin, messages, upload_cache, chat_session,
                 chat_session_key, interaction_logs, active_api_key,
                 selected_model, mtime, frame, waiting, upload_calls,
                 status_polls, last_call, queries, ever_cleared>>

\* render_auth_page: the login form is submitted
Login(email, password) ==
  /\ AtRest
  /\ ~authenticated
  /\ IF password = DEFAULT_PASSWORD /\ email # <<>>
       THEN /\ authenticated' = TRUE
            /\ user_email' = Lower(email)
            /\ is_admin' = EndsWith(Lower(email), ADMIN_EMAIL_DOMAIN)
       ELSE UNCHANGED <<authenticated, user_email, is_admin>>
  /\ HandlerReset
  /\ UNCHANGED <<show_admin, messages, upload_cache, chat_session,
                 chat_session_key, interaction_logs, active_api_key,
                 selected_model, mtime, frame, waiting, upload_calls, status_polls,
                 last_call, queries, ever_cleared>>

\* main_chat_interface: the Logout button
Logout ==
  /\ AtRest
  /\ authenticated
  /\ authenticated' = FALSE
  /\ user_email' = None
  /\ messages' = <<>>
  /\ HandlerReset
  /\ UNCHANGED <<is_admin, show_admin, upload_cache, chat_session,
                 chat_session_key, interaction_logs, active_api_key,
                 selected_model, mtime, frame, waiting, upload_calls, status_polls,
                 last_call, queries, ever_cleared>>

\* main_chat_interface: the Admin Dashboard button
ToggleAdmin ==
  /\ AtRest
  /\ authenticated
  /\ is_admin
  /\ show_admin' = ~show_admin
  /\ HandlerReset
  /\ UNCHANGED <<authenticated, user_email, is_admin, messages, upload_cache,
                 chat_session, chat_session_key, interaction_logs,
                 active_api_key, selected_model, mtime, frame, waiting, upload_calls,
                 status_polls, last_call, queries, ever_cleared>>

\* render_admin_page: the Clear Logs button
ClearLogs ==
  /\ AtRest
  /\ authenticated
  /\ show_admin /\ is_admin
  /\ interaction_logs # <<>>
  /\ interaction_logs' = <<>>
  /\ ever_cleared' = TRUE
  /\ HandlerReset
  /\ UNCHANGED <<authenticated, user_email, is_admin, show_admin, messages,
                 upload_cache, chat_session, chat_session_key, active_api_key,
                 selected_model, mtime, frame, waiting, upload_calls, status_polls,
                 last_call, queries>>

\* main_chat_interface: the API key radio and the custom key input
SetApiKey(option, custom_key) ==
  /\ AtRest
  /\ authenticated
  /\ ~(show_admin /\ is_admin)
  /\ active_api_key' =
       IF option = "Default Key" THEN default_api_key
       ELSE IF Strip(custom_key) # <<>> THEN Strip(custom_key)
       ELSE active_api_key
  /\ HandlerReset
  /\ UNCHANGED <<authenticated, user_email, is_admin, show_admin, messages,
                 upload_cache, chat_session, chat_session_key,
                 interaction_logs, selected_model, mtime, frame, waiting,
                 upload_calls, status_polls, last_call, queries, ever_cleared>>

\* main_chat_interface: the model selectbox or text input
SetModel(selection) ==
  /\ AtRest
  /\ ChatRendered
  /\ selected_model' =
       normalize_model_name(IF selection # <<>> THEN selection ELSE selected_model)
  /\ HandlerReset
  /\ UNCHANGED <<authenticated, user_email, is_admin, show_admin, messages,
                 upload_cache, chat_session, chat_session_key,
                 interaction_logs, active_api_key, mtime, frame, waiting,
                 upload_calls, status_polls, last_call, queries, ever_cleared>>

\* the file system: a PDF's modification time changes
Touch(path, m) ==
  /\ m # mtime[path]
  /\ mtime' = [mtime EXCEPT ![path] = m]
  /\ UNCHANGED <<session, handler, waiting, history, frame>>

(***************************************************************************)
(* The query handler of main_chat_interface                                *)
(***************************************************************************)
\* the except branches: the error is shown and logged
\* except branches of which the one for FileNotFoundError does not log
FailWith_unlogged(exc, text) ==
  /\ pc' = "Failed"
  /\ failure' = exc
  /\ shown' = ErrorShown(exc)
  /\ interaction_logs' =
       IF exc.type = "FileNotFoundError" THEN interaction_logs
       ELSE Append(interaction_logs,
                   log_interaction(user_email, text, <<>>, exc.msg))

FailWith(exc, text) ==
  /\ pc' = "Failed"
  /\ failure' = exc
  /\ shown' = ErrorShown(exc)
  /\ interaction_logs' =
       Append(interaction_logs, log_interaction(user_email, text, <<>>, exc.msg))

Fail(exc) == FailWith(exc, prompt)

\* a prompt is submitted in the chat input: the lenders are parsed and
\* resolved (Idle -> LendersResolving -> FilesUploading or Failed)
Submit(raw, selected) ==
  /\ AtRest
  /\ ChatRendered
  /\ queries < MaxQueries
  /\ raw # <<>>
  /\ queries' = queries + 1
  /\ prompt' = raw
  /\ messages' = Append(messages, [role |-> "user", content |-> raw])
  /\ effects' = NoEffects
  /\ response_text' = NoResponse
  /\ uploads' = <<>>
  /\ LET r == Resolve(raw, selected, selected_model)
     IN  /\ lenders' = r.lenders
         /\ question' = r.question
         /\ IF r.exc # NoExc
              THEN /\ FailWith(r.exc, raw)
                   /\ lender_paths' = <<>>
                   /\ model_name' = <<>>
              ELSE /\ pc' = "FilesUploading"
                   /\ lender_paths' = [i \in DOMAIN r.matched |-> r.matched[i][2]]
                   /\ model_name' = selected_model
                   /\ UNCHANGED <<failure, interaction_logs>>
                   /\ shown' = NothingShown
  /\ UNCHANGED <<authenticated, user_email, is_admin, show_admin, upload_cache,
                 chat_session, chat_session_key, active_api_key,
                 selected_model, mtime, frame, waiting, upload_calls, status_polls,
                 last_call, ever_cleared>>

\* upload_pdf_with_cache on the next lender file, up to the call of
\* wait_for_file_active: a cache hit returns the cached handle, otherwise
\* genai.upload_file is called and returns a handle or raises
UploadCall(result) ==
  /\ pc = "FilesUploading"
  /\ Len(uploads) < Len(lender_paths)
  /\ LET path == lender_paths[Len(uploads) + 1]
         m == mtime[path]
     IN  IF CacheHit(upload_cache, path, m)
           THEN /\ uploads' = Append(uploads, upload_cache[path].file)
                /\ last_call' = [last_call EXCEPT ![path] =
                     [called |-> TRUE, mtime |-> m, uploaded |-> FALSE,
                      returned |-> TRUE]]
                /\ UNCHANGED <<pc, failure, shown, interaction_logs, waiting,
                               upload_calls, effects>>
           ELSE /\ upload_calls' = upload_calls + 1
                /\ effects' = [effects EXCEPT !.uploads = @ + 1]
                /\ last_call' = [last_call EXCEPT ![path] =
                     [called |-> TRUE, mtime |-> m, uploaded |-> TRUE,
                      returned |-> FALSE]]
                /\ IF result.exc # NoExc
                     THEN /\ Fail(result.exc)
                          /\ UNCHANGED <<uploads, waiting>>
                     ELSE /\ current' = [name |-> upload_calls + 1,
                                         state |-> result.state,
                                         display_name |-> path,
                                         by |-> user_email]
                          /\ path_mtime' = m
                          /\ elapsed' = 0
                          /\ pc' = "Waiting"
                          /\ UNCHANGED <<uploads, failure, shown,
                                         interaction_logs, timeout,
                                         max_latency, raised>>
  /\ UNCHANGED <<authenticated, user_email, is_admin, show_admin, messages,
                 upload_cache, chat_session, chat_session_key, active_api_key,
                 selected_model, mtime, frame, prompt, lenders, question,
                 lender_paths, model_name, response_text, status_polls,
                 queries, ever_cleared>>

(***************************************************************************)
(* wait_for_file_active                                                    *)
(***************************************************************************)
\* the loop's body when the time is up: TimeoutError
WaitTimeout ==
  /\ pc = "Waiting"
  /\ StillProcessing(current)
  /\ TimedOut(elapsed, timeout)
  /\ raised' = WaitTimeoutError(current)
  /\ pc' = "WaitRaised"
  /\ UNCHANGED <<session, mtime, frame, prompt, lenders, question, lender_paths,
                 model_name, uploads, response_text, failure, shown,
                 path_mtime, current, timeout, elapsed, max_latency, history>>

\* the loop's body otherwise: time.sleep(2), then genai.get_file, which
\* returns the handle in its present state or raises
WaitPoll(latency, result) ==
  /\ pc = "Waiting"
  /\ StillProcessing(current)
  /\ ~TimedOut(elapsed, timeout)
  /\ latency <= max_latency
  /\ elapsed' = elapsed + PollInterval + latency
  /\ status_polls' = status_polls + 1
  /\ effects' = [effects EXCEPT !.polled = TRUE]
  /\ IF result.exc # NoExc
       THEN /\ raised' = result.exc
            /\ pc' = "WaitRaised"
            /\ UNCHANGED current
       ELSE /\ current' = [current EXCEPT !.state = result.state]
            /\ UNCHANGED <<pc, raised>>
  /\ UNCHANGED <<session, mtime, frame, prompt, lenders, question, lender_paths,
                 model_name, uploads, response_text, failure, shown,
                 path_mtime, timeout, max_latency, upload_calls, last_call,
                 queries, ever_cleared>>

\* after the loop: RuntimeError for a state other than ACTIVE, otherwise
\* the handle is returned
WaitExit ==
  /\ pc = "Waiting"
  /\ ~StillProcessing(current)
  /\ IF NotActive(current)
       THEN /\ raised' = RejectedError(current)
            /\ pc' = "WaitRaised"
       ELSE /\ pc' = "WaitReturned"
            /\ UNCHANGED raised
  /\ UNCHANGED <<session, mtime, frame, prompt, lenders, question, lender_paths,
                 model_name, uploads, response_text, failure, shown,
                 path_mtime, current, timeout, elapsed, max_latency, history>>

\* upload_pdf_with_cache after wait_for_file_active returned: the handle
\* and the modification time read at the start are stored in the cache
UploadStore ==
  /\ pc = "WaitReturned"
  /\ LET path == lender_paths[Len(uploads) + 1]
     IN  /\ upload_cache' = [upload_cache EXCEPT ![path] =
               [file |-> current, mtime |-> path_mtime]]
         /\ last_call' = [last_call EXCEPT ![path].returned = TRUE]
  /\ uploads' = Append(uploads, current)
  /\ pc' = "FilesUploading"
  /\ current' = NoHandle
  /\ path_mtime' = -1
  /\ elapsed' = 0
  /\ status_polls' = 0
  /\ UNCHANGED <<authenticated, user_email, is_admin, show_admin, messages,
                 chat_session, chat_session_key, interaction_logs,
                 active_api_key, selected_model, mtime, frame, prompt, lenders,
                 question, lender_paths, model_name, response_text, failure,
                 shown, timeout, max_latency, raised, upload_calls, effects,
                 queries, ever_cleared>>

\* an upload_pdf_with_cache that stores the handle though the wait raised
UploadFail_stored ==
  /\ pc = "WaitRaised"
  /\ Fail(raised)
  /\ upload_cache' = [upload_cache EXCEPT ![lender_paths[Len(uploads) + 1]] =
                        [file |-> current, mtime |-> path_mtime]]
  /\ raised' = NoExc
  /\ current' = NoHandle
  /\ path_mtime' = -1
  /\ elapsed' = 0
  /\ status_polls' = 0
  /\ UNCHANGED <<authenticated, user_email, is_admin, show_admin, messages,
                 chat_session, chat_session_key, active_api_key,
                 selected_model, mtime, frame, prompt, lenders, question,
                 lender_paths, model_name, uploads, response_text, timeout,
                 max_latency, upload_calls, effects, last_call, queries,
                 ever_cleared>>

\* an answer_with_gemini that goes on to the next file when the wait raised
UploadFail_skip ==
  /\ pc = "WaitRaised"
  /\ pc' = "FilesUploading"
  /\ uploads' = Append(uploads, current)
  /\ raised' = NoExc
  /\ current' = NoHandle
  /\ path_mtime' = -1
  /\ elapsed' = 0
  /\ status_polls' = 0
  /\ UNCHANGED <<session, mtime, frame, prompt, lenders, question,
                 lender_paths, model_name, response_text, failure, shown,
                 timeout, max_latency, upload_calls, effects, last_call,
                 queries, ever_cleared>>

\* wait_for_file_active raised: the exception reaches the except branches
UploadFail ==
  /\ pc = "WaitRaised"
  /\ Fail(raised)
  /\ raised' = NoExc
  /\ current' = NoHandle
  /\ path_mtime' = -1
  /\ elapsed' = 0
  /\ status_polls' = 0
  /\ UNCHANGED <<authenticated, user_email, is_admin, show_admin, messages,
                 upload_cache, chat_session, chat_session_key, active_api_key,
                 selected_model, mtime, frame, prompt, lenders, question,
                 lender_paths, model_name, uploads, response_text, timeout,
                 max_latency, upload_calls, effects, last_call, queries,
                 ever_cleared>>

(***************************************************************************)
(* answer_with_gemini after the uploads                                    *)
(***************************************************************************)
\* ensure_chat_session
EnsureChat ==
  /\ pc = "FilesUploading"
  /\ Len(uploads) = Len(lender_paths)
  /\ LET key == SessionKey(user_email, active_api_key, model_name)
     IN  IF NeedsNewChat(chat_session, chat_session_key, key)
           THEN /\ chat_session' = [id |-> chat_session.id + 1, turns |-> 0,
                                    by |-> user_email]
                /\ chat_session_key' = key
                /\ effects' = [effects EXCEPT !.chats = @ + 1]
           ELSE UNCHANGED <<chat_session, chat_session_key, effects>>
  /\ pc' = "ModelCalling"
  /\ UNCHANGED <<authenticated, user_email, is_admin, show_admin, messages,
                 upload_cache, interaction_logs, active_api_key,
                 selected_model, mtime, frame, prompt, lenders, question,
                 lender_paths, model_name, uploads, response_text, failure,
                 shown, waiting, upload_calls, status_polls, last_call,
                 queries, ever_cleared>>

\* chat.send_message(parts), which returns a response or raises; then the
\* answer is shown and logged
SendMessage(result) ==
  /\ pc = "ModelCalling"
  /\ effects' = [effects EXCEPT !.sends = @ + 1,
                                !.parts = MessageParts(uploads, question)]
  /\ IF result.exc # NoExc
       THEN /\ Fail(result.exc)
            /\ UNCHANGED <<chat_session, messages, response_text>>
       ELSE LET answer == answer_text(result.text)
            IN  /\ response_text' = result.text
                /\ chat_session' = [chat_session EXCEPT !.turns = @ + 1]
                /\ shown' = [kind |-> "markdown", text |-> answer]
                /\ messages' = Append(messages,
                                      [role |-> "assistant", content |-> answer])
                /\ interaction_logs' =
                     Append(interaction_logs,
                            log_interaction(user_email, prompt, answer, None))
                /\ pc' = "Answered"
                /\ UNCHANGED failure
  /\ UNCHANGED <<authenticated, user_email, is_admin, show_admin, upload_cache,
                 chat_session_key, active_api_key, selected_model, mtime, frame,
                 prompt, lenders, question, lender_paths, model_name, uploads,
                 waiting, upload_calls, status_polls, last_call, queries,
                 ever_cleared>>

(***************************************************************************)
(* Specifications                                                          *)
(***************************************************************************)
\* the steps of answer_with_gemini, with every outcome of the provider
\* (a status request answers within max_latency)
Answering ==
  \/ \E result \in FileResults : UploadCall(result)
  \/ WaitTimeout
  \/ \E latency \in 0..MaxLatency, result \in FileResults : WaitPoll(latency, result)
  \/ WaitExit
  \/ UploadStore
  \/ UploadFail
  \/ EnsureChat
  \/ \E result \in SendResults : SendMessage(result)

\* the whole application
Next ==
  \/ \E email \in Emails, password \in Passwords : Login(email, password)
  \/ Logout
  \/ ToggleAdmin
  \/ ClearLogs
  \/ \E option \in {"Default Key", "Custom Key"}, key \in ApiKeyInputs :
       SetApiKey(option, key)
  \/ \E selection \in ModelInputs : SetModel(selection)
  \/ \E path \in Paths, m \in 0..MaxMtime : Touch(path, m)
  \/ \E raw \in RawInputs, selected \in SelectedChoices : Submit(raw, selected)
  \/ Answering

Spec == Init /\ [][Next]_vars

\* The specifications below are Spec with the inputs restricted.

\* the steps of answer_with_gemini with a provider that answers at once
\* and whose files are ready (or rejected) by the first status request, or
\* else stay in processing for good
AnsweringPromptly ==
  \/ \E result \in FileResults : UploadCall(result)
  \/ WaitTimeout
  \/ \E result \in FileResults :
       /\ status_polls = 0 \/ result = Outcome(NoExc, "PROCESSING", None)
       /\ WaitPoll(0, result)
  \/ WaitExit
  \/ UploadStore
  \/ UploadFail
  \/ EnsureChat
  \/ \E result \in SendResults : SendMessage(result)

\* queries of one privileged user, who may open the dashboard and clear
\* the logs
AdminEmail == <<"R","@","a","d","m","i","n",".","l","e","x">>
BrokerEmail == <<"b","@","m",".","c">>

QueryInputs ==
  { <<"(","A","c",","," ","m"," ","f",")"," ","q","?">>,
    <<"(","A","c",","," ","z","z",")"," ","q","?">>,
    <<"(","z","z",")">>,
    <<"q","?">> }

NextQuery ==
  \/ \E password \in Passwords : Login(AdminEmail, password)
  \/ ToggleAdmin
  \/ ClearLogs
  \/ \E raw \in QueryInputs : Submit(raw, <<>>)
  \/ AnsweringPromptly

SpecQuery == Init /\ [][NextQuery]_vars

\* queries of one broker on one lender, whose PDF is modified now and then
CacheInputs == { <<"(","A","c",")"," ","q","?">> }

NextCache ==
  \/ Login(BrokerEmail, DEFAULT_PASSWORD)
  \/ \E m \in 0..MaxMtime : Touch(DirListing[1], m)
  \/ \E raw \in CacheInputs : Submit(raw, <<>>)
  \/ AnsweringPromptly

SpecCache == Init /\ [][NextCache]_vars

\* brokers who log in and out and change the API key and the model between
\* queries, with a provider whose files are active at once
ReadyResults == { Outcome(NoExc, "ACTIVE", None) }

ReplyResults ==
  { Outcome(NoExc, "NONE", <<"6">>),
    Outcome(Exc("Exception", "ProviderCallFailed", <<"quota exceeded">>, <<>>),
            "NONE", None) }

NextChat ==
  \/ \E email \in {BrokerEmail, AdminEmail} : Login(email, DEFAULT_PASSWORD)
  \/ Logout
  \/ \E option \in {"Default Key", "Custom Key"}, key \in ApiKeyInputs :
       SetApiKey(option, key)
  \/ \E selection \in ModelInputs : SetModel(selection)
  \/ \E raw \in CacheInputs : Submit(raw, <<>>)
  \/ \E result \in ReadyResults : UploadCall(result)
  \/ WaitExit
  \/ UploadStore
  \/ EnsureChat
  \/ \E result \in ReplyResults : SendMessage(result)

SpecChat == Init /\ [][NextChat]_vars

\* wait_for_file_active alone, called with any handle and any timeout
InitWait ==
  /\ authenticated = TRUE
  /\ user_email = BrokerEmail
  /\ is_admin = FALSE
  /\ show_admin = FALSE
  /\ messages = <<>>
  /\ upload_cache = [p \in Paths |-> NoEntry]
  /\ chat_session = NoChat
  /\ chat_session_key = None
  /\ interaction_logs = <<>>
  /\ active_api_key = default_api_key
  /\ selected_model = <<>>
  /\ mtime = [p \in Paths |-> 0]
  /\ pc = "Waiting"
  /\ prompt = <<>>
  /\ lenders = <<>>
  /\ question = <<>>
  /\ lender_paths = <<>>
  /\ model_name = <<>>
  /\ uploads = <<>>
  /\ response_text = NoResponse
  /\ failure = NoExc
  /\ shown = NothingShown
  /\ path_mtime = 0
  /\ \E st \in HandleStates :
       current = [name |-> 1, state |-> st, display_name |-> DirListing[1],
                  by |-> user_email]
  /\ timeout \in 0..MaxTimeout
  /\ elapsed = 0
  /\ max_latency \in 0..MaxLatency
  /\ raised = NoExc
  /\ upload_calls = 1
  /\ status_polls = 0
  /\ effects = NoEffects
  /\ last_call = [p \in Paths |-> NoCall]
  /\ queries = 0
  /\ ever_cleared = FALSE
  /\ frame = NoFrame

NextWait ==
  \/ WaitTimeout
  \/ \E latency \in 0..MaxLatency, result \in FileResults : WaitPoll(latency, result)
  \/ WaitExit

SpecWait == InitWait /\ [][NextWait]_vars

(***************************************************************************)
(* Properties of wait_for_file_active (SpecWait)                           *)
(***************************************************************************)
\* the call is over: the handle was returned, or an exception was raised
WaitOver == pc \in {"WaitReturned", "WaitRaised"}

\* steps of wait_for_file_active taken with the loop left behind
LoopLeft == pc = "Waiting" /\ current.state # "PROCESSING"

\* an active handle is returned as it is, with no status request made
ActiveReturnedAsIs ==
  (pc = "Waiting" /\ current.state = "ACTIVE")
    => /\ pc' = "WaitReturned"
       /\ current' = current
       /\ status_polls' = status_polls

\* C4, as claimed: wait_until_active returns a handle only when its final
\* state is active; when polling stops in any other state, a handle with no
\* state included, it fails with ProviderRejected; a handle that is active
\* on entry is returned with zero status polls.
C4_OnlyActiveReturned ==
  /\ [](pc = "WaitReturned" => current.state = "ACTIVE")
  /\ [][(LoopLeft /\ current.state # "ACTIVE")
          => pc' = "WaitRaised" /\ raised'.kind = "ProviderRejected"]_vars
  /\ [][ActiveReturnedAsIs]_vars

\* C4, amended: wait_until_active returns a handle only when its final
\* state is active or the handle reports no state; when polling stops in a
\* reported state other than active it fails with ProviderRejected; a
\* handle that is active on entry is returned with zero status polls.
C4_OnlyActiveOrStatelessReturned ==
  /\ [](pc = "WaitReturned" => current.state \in {"ACTIVE", "NONE"})
  /\ [](pc = "WaitReturned" /\ current.state = "ACTIVE" /\ elapsed = 0
          => status_polls = 0)
  /\ [][(LoopLeft /\ current.state \notin {"ACTIVE", "NONE"})
          => /\ pc' = "WaitRaised"
             /\ raised'.kind = "ProviderRejected"
             /\ raised'.type = "RuntimeError"]_vars
  /\ [][(LoopLeft /\ current.state = "NONE")
          => pc' = "WaitReturned" /\ current' = current]_vars
  /\ [][ActiveReturnedAsIs]_vars

\* a handle that stopped reporting a state after a status request is
\* returned
C4_Witness ==
  pc = "WaitReturned" /\ current.state = "NONE" /\ status_polls >= 1

\* C5: once the elapsed time has exceeded the timeout with no terminal
\* state observed, wait_until_active fails with Timeout: it neither returns
\* the handle nor fails with ProviderRejected, whatever the state the
\* handle reports at a later poll (a status request that itself raises
\* passes its exception on).
C5_TimeoutWins ==
  (WaitOver /\ elapsed > timeout /\ status_polls >= 1
     /\ current.state # "NONE")
    => pc = "WaitRaised" /\ raised.kind \in {"Timeout", "ProviderCallFailed"}

(***************************************************************************)
(* Properties of the query handler (SpecQuery)                             *)
(***************************************************************************)
Terminal == {"Answered", "Failed"}

\* the entry appended last
LastLog == interaction_logs[Len(interaction_logs)]

\* the tokens of the parenthesized group of a prompt that are not keys of
\* the index
IsMissing(token) == normalize_lender_key(token) \notin DOMAIN lender_index
MissingOf(raw) == SelectSeq(parse_lenders_and_question(raw)[1], IsMissing)

\* the question text of a prompt with a parenthesized group
QuestionOf(raw) == parse_lenders_and_question(raw)[2]

\* a query fails for its missing lenders, and nothing was asked of the
\* provider for it
FailedForMissing ==
  /\ pc = "Failed"
  /\ failure.kind = "LendersNotFound"
  /\ failure.type = "FileNotFoundError"
  /\ failure.names = MissingOf(prompt)
  /\ effects = NoEffects
  /\ uploads = <<>>

\* C2, as claimed: a query that names a lender absent from the index ends
\* in Failed with LendersNotFound carrying the missing names, with no
\* upload, status poll, chat creation or model call.
C2_MissingAlwaysNotFound ==
  (pc # "Idle" /\ MissingOf(prompt) # <<>>) => FailedForMissing

\* C2, amended: a query with a non-empty question that names a lender
\* absent from the index ends in Failed with LendersNotFound carrying
\* exactly the missing names; no upload, status poll, chat creation or
\* model call is made for it, and the upload cache and the chat session
\* are as before.
C2_MissingWithQuestionNotFound ==
  /\ []((pc # "Idle" /\ MissingOf(prompt) # <<>> /\ QuestionOf(prompt) # <<>>)
          => FailedForMissing)
  /\ [][(queries' = queries + 1 /\ MissingOf(prompt') # <<>>
           /\ QuestionOf(prompt') # <<>>)
          => /\ pc' = "Failed"
             /\ UNCHANGED <<upload_cache, chat_session, chat_session_key,
                            upload_calls, status_polls>>
             /\ LastLog'.error = failure'.msg]_vars

\* a query of two lenders, one of them missing, failed although the other
\* lender's file is in the upload cache
C2_Witness ==
  /\ FailedForMissing
  /\ Len(lenders) = 2
  /\ Len(failure.names) = 1
  /\ \E p \in Paths : upload_cache[p] # NoEntry

\* the queries that have reached Answered or Failed
Finished == IF AtRest THEN queries ELSE queries - 1

\* the prompts submitted, in order (nobody logs out in SpecQuery, so the
\* messages hold them all)
RECURSIVE UserPrompts(_)
UserPrompts(msgs) ==
  IF msgs = <<>> THEN <<>>
  ELSE (IF Head(msgs).role = "user" THEN <<Head(msgs).content>> ELSE <<>>)
         \o UserPrompts(Tail(msgs))

\* C3: every query that reaches Answered or Failed appends exactly one
\* entry; with no Clear Logs, n processed queries leave n entries in the
\* order of submission, and earlier entries are neither changed nor removed.
C3_OneEntryPerQuery ==
  /\ [](~ever_cleared =>
          /\ Len(interaction_logs) = Finished
          /\ \A i \in DOMAIN interaction_logs :
               interaction_logs[i].prompt = UserPrompts(messages)[i])
  /\ [][IF pc' \in Terminal /\ (pc \notin Terminal \/ queries' # queries)
          THEN /\ Len(interaction_logs') = Len(interaction_logs) + 1
               /\ SubSeq(interaction_logs', 1, Len(interaction_logs))
                    = interaction_logs
               /\ LastLog'.prompt = prompt'
               /\ LastLog'.user_email = user_email
          ELSE \/ interaction_logs' = interaction_logs
               \/ (show_admin /\ is_admin /\ ever_cleared'
                     /\ interaction_logs' = <<>>)]_vars

\* a failed query and then an answered one, both logged
C3_Witness ==
  /\ ~ever_cleared
  /\ Len(interaction_logs) = 2
  /\ interaction_logs[1].response = None
  /\ interaction_logs[2].error = None
  /\ pc = "Answered"

\* the model has replied to the query
Replied == response_text # NoResponse

\* response.text is absent, empty or white space only
BlankReply == response_text = None \/ Strip(response_text) = <<>>

\* the query is answered with the given text: shown and logged as a success
AnsweredWith(text) ==
  /\ pc = "Answered"
  /\ shown = [kind |-> "markdown", text |-> text]
  /\ LastLog.prompt = prompt
  /\ LastLog.response = text
  /\ LastLog.error = None

\* C6, as claimed: when the model returns non-empty text (text that is not
\* white space only, which has the fallback), the query ends in Answered
\* and the text shown and logged is exactly the response text.
C6_ExactTextShown ==
  (Replied /\ ~BlankReply) => AnsweredWith(response_text)

\* C6, amended: when the model returns text that is not empty once white
\* space is stripped from its ends, the query ends in Answered, the text
\* shown is the response text so stripped, and the log entry has no error
\* and that stripped text as its response.
C6_StrippedTextShown ==
  (Replied /\ ~BlankReply) => AnsweredWith(Strip(response_text))

\* a response with white space around its text was answered
C6_Witness ==
  /\ pc = "Answered"
  /\ response_text = <<" ", "6", "\n">>
  /\ shown.text = <<"6">>
  /\ Len(uploads) = 2

\* C7: when the model call succeeds with an empty, absent or white-space
\* response text, the query ends in Answered: the fallback sentence is
\* shown, and logged as the response with no error.
C7_BlankReplyFallback ==
  (Replied /\ BlankReply) => AnsweredWith(FallbackSentence)

\* a white-space response was answered
C7_Witness == pc = "Answered" /\ response_text = <<" ">>

\* C8: every query that ends in Failed is logged with its prompt, an error
\* that is not none and a response that is none.
C8_FailureLogged ==
  pc = "Failed"
    => /\ LastLog.prompt = prompt
       /\ LastLog.error # None
       /\ LastLog.response = None

(***************************************************************************)
(* Properties of the upload cache (SpecCache)                              *)
(***************************************************************************)
\* the path of the next call of upload_pdf_with_cache
NextPath == lender_paths[Len(uploads) + 1]

\* a step that is a call of upload_pdf_with_cache (up to the readiness wait)
CallStep ==
  /\ pc = "FilesUploading"
  /\ Len(uploads) < Len(lender_paths)
  /\ mtime' = mtime

\* the cache holds an entry for the path with the path's present
\* modification time
Cached(path) ==
  upload_cache[path] # NoEntry /\ upload_cache[path].mtime = mtime[path]

\* a call uploads if and only if no such entry is held; a hit returns the
\* handle of the entry and leaves the cache alone
UploadIffNotCached ==
  CallStep =>
    /\ upload_calls' = upload_calls + 1 <=> ~Cached(NextPath)
    /\ upload_calls' = upload_calls <=> Cached(NextPath)
    /\ Cached(NextPath) =>
         /\ uploads' = Append(uploads, upload_cache[NextPath].file)
         /\ upload_cache' = upload_cache

\* C1, as claimed: a call on p uploads if and only if the cache holds no
\* entry for p with p's present modification time; so of two calls with no
\* change of the modification time in between the second does not upload
\* again, and a call after a change does.
C1_OneUploadPerMtime ==
  [][/\ UploadIffNotCached
     /\ (CallStep /\ last_call[NextPath].called
           /\ last_call[NextPath].uploaded
           /\ last_call[NextPath].mtime = mtime[NextPath])
          => upload_calls' = upload_calls
     /\ (CallStep /\ last_call[NextPath].called
           /\ last_call[NextPath].mtime # mtime[NextPath])
          => upload_calls' = upload_calls + 1]_vars

\* C1, amended: a call on p uploads if and only if the cache holds no entry
\* for p with p's present modification time; so after a call on p that
\* returned a handle, the next call on p does not upload when the
\* modification time is the one that call read, and uploads when it is not.
C1_OneUploadPerMtimeAfterSuccess ==
  [][/\ UploadIffNotCached
     /\ (CallStep /\ last_call[NextPath].called
           /\ last_call[NextPath].returned
           /\ last_call[NextPath].mtime = mtime[NextPath])
          => upload_calls' = upload_calls
     /\ (CallStep /\ last_call[NextPath].called
           /\ last_call[NextPath].returned
           /\ last_call[NextPath].mtime # mtime[NextPath])
          => upload_calls' = upload_calls + 1]_vars

\* the first query was answered, the PDF was modified, and the second
\* query uploaded it again
C1_Witness ==
  /\ Len(interaction_logs) >= 1
  /\ interaction_logs[1].error = None
  /\ upload_calls = 2
  /\ upload_cache[DirListing[1]].file.name = 2
  /\ upload_cache[DirListing[1]].mtime = 1

(***************************************************************************)
(* Properties of the chat session (SpecChat)                               *)
(***************************************************************************)
\* a step that is a call of ensure_chat_session
ChatStep == pc = "FilesUploading" /\ pc' = "ModelCalling"

\* the key of the call
CallKey == user_email \o <<":">> \o active_api_key \o <<":">> \o model_name

\* C9: a call of ensure_chat_session starts a chat with an empty history
\* exactly when there is no chat yet or the key of the call is not the
\* stored key; otherwise the chat and its history are kept; after the call
\* the stored key is the key of the call.
C9_ChatPerKey ==
  [][ChatStep =>
       /\ (chat_session = NoChat \/ chat_session_key # CallKey)
            => /\ chat_session'.id # chat_session.id
               /\ chat_session'.turns = 0
       /\ ~(chat_session = NoChat \/ chat_session_key # CallKey)
            => chat_session' = chat_session
       /\ chat_session_key' = CallKey]_vars

\* a chat with history was replaced by a new one
C9_Witness ==
  /\ pc = "ModelCalling"
  /\ chat_session.id = 2
  /\ chat_session.turns = 0
  /\ Len(messages) >= 1

\* C10: the file handles and the chat used to answer a query were created
\* while the identity that asks was the one logged in.
C10_NothingShared ==
  pc = "ModelCalling"
    => /\ \A i \in DOMAIN uploads : uploads[i].by = user_email
       /\ chat_session.by = user_email

(***************************************************************************)
(* find_lender_files called on its own (SpecFind)                          *)
(***************************************************************************)
MaxTokens == 3

\* lender names as a user writes them
FindTokens == { <<"A","c">>, <<"a"," ","C">>, <<"m"," ","f">>, <<"z","z">> }

\* the sequences of at most n elements of S
SeqsUpTo(S, n) == UNION {[1..k -> S] : k \in 0..n}

\* sorted listings of PDF directories: an empty one, the one of the
\* session, and one with two stems of the same key
FindListings == { <<>>, DirListing, << <<"m","_","f">>, <<"m","f">> >> }

InitFind ==
  /\ SessionStart
  /\ \E tokens \in SeqsUpTo(FindTokens, MaxTokens), listing \in FindListings :
       frame = [fn |-> "find_lender_files", returned |-> FALSE,
                lenders |-> tokens, index |-> index_lender_pdfs(listing),
                found |-> <<>>, missing |-> <<>>]

\* found, missing = find_lender_files(lenders, index)
CallFind ==
  /\ frame.fn = "find_lender_files"
  /\ ~frame.returned
  /\ LET r == find_lender_files(frame.lenders, frame.index)
     IN  frame' = [frame EXCEPT !.returned = TRUE, !.found = r[1],
                                !.missing = r[2]]
  /\ UNCHANGED <<session, mtime, handler, waiting, history>>

NextFind == CallFind

SpecFind == InitFind /\ [][NextFind]_vars

\* C11: find_lender_files partitions its tokens: found and missing together
\* are as long as the token list; found holds, in input order and with
\* repetitions, the tokens whose normalized key is a key of the index, each
\* paired with the index's path for that key; missing holds the other
\* tokens, in input order and with repetitions.
C11_ResolvePartitions ==
  (frame.fn = "find_lender_files" /\ frame.returned) =>
    LET InIndex(t) == normalize_lender_key(t) \in DOMAIN frame.index
        NotInIndex(t) == normalize_lender_key(t) \notin DOMAIN frame.index
        known == SelectSeq(frame.lenders, InIndex)
    IN  /\ Len(frame.found) + Len(frame.missing) = Len(frame.lenders)
        /\ Len(frame.found) = Len(known)
        /\ \A i \in DOMAIN known :
             frame.found[i] =
               <<known[i], frame.index[normalize_lender_key(known[i])]>>
        /\ frame.missing = SelectSeq(frame.lenders, NotInIndex)

\* a lender named twice is found twice, around a lender that is missing
C11_Witness ==
  /\ frame.fn = "find_lender_files"
  /\ frame.returned
  /\ frame.lenders = << <<"A","c">>, <<"z","z">>, <<"a"," ","C">> >>
  /\ Len(frame.found) = 2
  /\ frame.found[1][2] = frame.found[2][2]
  /\ frame.missing = << <<"z","z">> >>

(***************************************************************************)
(* parse_lenders_and_question called on its own (SpecParse)                *)
(***************************************************************************)
MaxNames == 3

\* lender names: one of two words, the second beginning with the letters
\* of a delimiter word, and one that is a delimiter word
ParseNames == { <<"m"," ","o","r","e">>, <<"o","r">> }

\* the delimiters, with and without white space around them
SymbolJoints == { <<",">>, <<" ","/"," ">>, <<"&"," ">>, <<" ","+">> }
SpacedWordJoints == { <<" ","a","n","d"," ">>, <<" ","O","r"," ">> }
BareWordJoints == { <<"a","n","d">> }
Joints == SymbolJoints \cup SpacedWordJoints \cup BareWordJoints

\* the names joined by the joints: names[1] joints[1] names[2] ...
RECURSIVE JoinWith(_, _)
JoinWith(names, joints) ==
  IF Len(names) <= 1 THEN (IF names = <<>> THEN <<>> ELSE names[1])
  ELSE names[1] \o joints[1] \o JoinWith(Tail(names), Tail(joints))

InitParse ==
  /\ SessionStart
  /\ Truthy(selected_model)
  /\ \E n \in 1..MaxNames :
       \E names \in [1..n -> ParseNames], joints \in [1..(n - 1) -> Joints] :
         frame = [fn |-> "parse_lenders_and_question", returned |-> FALSE,
                  names |-> names, joints |-> joints,
                  raw_input |-> <<"(">> \o JoinWith(names, joints)
                                  \o <<")", " ", "q", "?">>,
                  lenders |-> <<>>, question |-> <<>>]

\* lenders, question = parse_lenders_and_question(raw_input)
CallParse ==
  /\ frame.fn = "parse_lenders_and_question"
  /\ ~frame.returned
  /\ LET r == parse_lenders_and_question(frame.raw_input)
     IN  frame' = [frame EXCEPT !.returned = TRUE, !.lenders = r[1],
                                !.question = r[2]]
  /\ UNCHANGED <<session, mtime, handler, waiting, history>>

NextParse == CallParse

SpecParse == InitParse /\ [][NextParse]_vars

\* a name that is not empty, has no white space at its ends and holds no
\* delimiter: no comma, slash, ampersand, plus or closing parenthesis, and
\* neither "and" nor "or" as a word
PlainName(name) ==
  /\ name # <<>>
  /\ Strip(name) = name
  /\ Range(name) \cap {",", "/", "&", "+", ")"} = {}
  /\ \A k \in DOMAIN name :
       ~WordAt(name, k, <<"a","n","d">>) /\ ~WordAt(name, k, <<"o","r">>)

\* the parse of a list of plain names has returned
PlainListParsed ==
  /\ frame.fn = "parse_lenders_and_question"
  /\ frame.returned
  /\ \A i \in DOMAIN frame.names : PlainName(frame.names[i])

NextResolve ==
  \/ Login(BrokerEmail, DEFAULT_PASSWORD)
  \/ \E raw \in RawInputs, selected \in SelectedChoices : Submit(raw, selected)
  \/ \E result \in ReadyResults : UploadCall(result)
  \/ WaitExit
  \/ UploadStore
  \/ EnsureChat
  \/ \E result \in ReplyResults : SendMessage(result)

SpecResolve == Init /\ [][NextResolve]_vars

\* the lenders of the query that have no PDF in the index
Unmatched(tokens) ==
  LET NotInIndex(t) == normalize_lender_key(t) \notin DOMAIN lender_index
  IN  SelectSeq(tokens, NotInIndex)

\* the first three checks after a submission, in their order
ChecksInOrder(raw, selected) ==
  LET none == parse_lenders_and_question(raw)[1] = <<>> /\ selected = <<>>
      unasked == ~none /\ question' = <<>>
      unknown == ~none /\ ~unasked /\ Unmatched(lenders') # <<>>
  IN  /\ none <=> (pc' = "Failed" /\ failure'.kind = "NoLendersSpecified")
      /\ unasked <=> (pc' = "Failed" /\ failure'.kind = "NoQuestionText")
      /\ unknown <=> (pc' = "Failed" /\ failure'.kind = "LendersNotFound")
      /\ unknown => failure'.names = Unmatched(lenders')

\* none of the first three checks fails
ChecksPassed(raw, selected) ==
  /\ ~(parse_lenders_and_question(raw)[1] = <<>> /\ selected = <<>>)
  /\ question' # <<>>
  /\ Unmatched(lenders') = <<>>

\* C13, as claimed: a submitted query fails with NoLendersSpecified iff the
\* parsed tokens and the selected lenders are both empty; otherwise with
\* NoQuestionText iff the question is empty; otherwise with LendersNotFound
\* iff a token is unmatched; otherwise it goes on to FilesUploading, no
\* other failure being possible.
C13_ThreeChecksThenUpload ==
  [][\A raw \in RawInputs, selected \in SelectedChoices :
       Submit(raw, selected) =>
         /\ ChecksInOrder(raw, selected)
         /\ ChecksPassed(raw, selected) <=> pc' = "FilesUploading"]_vars

\* C13, amended: a submitted query fails with NoLendersSpecified iff the
\* parsed tokens and the selected lenders are both empty; otherwise with
\* NoQuestionText iff the question is empty; otherwise with LendersNotFound
\* iff a token is unmatched; otherwise it fails, as an invalid query, iff
\* the selected model name is empty; otherwise it goes on to
\* FilesUploading.
C13_FourChecksThenUpload ==
  [][\A raw \in RawInputs, selected \in SelectedChoices :
       Submit(raw, selected) =>
         /\ ChecksInOrder(raw, selected)
         /\ (ChecksPassed(raw, selected) /\ selected_model = <<>>)
              <=> (pc' = "Failed" /\ failure'.kind = "NoModelSelected")
         /\ (ChecksPassed(raw, selected) /\ selected_model # <<>>)
              <=> pc' = "FilesUploading"
         /\ pc' \in {"Failed", "FilesUploading"}]_vars

\* a question typed with no lender list goes on with the lender chosen in
\* the sidebar
C13_Witness ==
  /\ pc = "FilesUploading"
  /\ prompt = <<"q", "?">>
  /\ lenders = << <<"M", " ", "F">> >>
  /\ lender_paths = << <<"m", "_", "f">> >>

(***************************************************************************)
(* Properties of the uploads of a query (SpecQuery)                        *)
(***************************************************************************)
\* the handles obtained so far are those of the first lender files, in
\* lender order, and the file being waited for is the next one
InLenderOrder ==
  /\ Len(uploads) <= Len(lender_paths)
  /\ \A i \in DOMAIN uploads : uploads[i].display_name = lender_paths[i]
  /\ pc \in {"Waiting", "WaitReturned", "WaitRaised"}
       => /\ Len(uploads) < Len(lender_paths)
          /\ current.display_name = lender_paths[Len(uploads) + 1]

\* the query failed in upload_pdf_with_cache
UploadFailed ==
  /\ pc = "Failed"
  /\ failure.kind \in {"Timeout", "ProviderRejected", "ProviderCallFailed"}
  /\ effects.sends = 0

\* C14: the files of the matched lenders are processed one at a time in
\* lender order; when upload_pdf_with_cache fails for the k-th file, the
\* query ends in Failed with that error, logged, and neither before nor
\* after that is there an upload or a status request for a later file, a
\* new chat session or a model call.
C14_FailedUploadAborts ==
  /\ [](InLenderOrder)
  /\ [](UploadFailed
          => /\ effects.uploads <= Len(uploads) + 1
             /\ effects.chats = 0
             /\ Len(uploads) < Len(lender_paths)
             /\ LastLog.prompt = prompt
             /\ LastLog.error = failure.msg)
  /\ [][pc = "WaitRaised"
          => /\ pc' = "Failed"
             /\ failure' = raised
             /\ raised.kind \in {"Timeout", "ProviderRejected",
                                 "ProviderCallFailed"}]_vars
  /\ [][pc = "Failed"
          => /\ upload_calls' = upload_calls
             /\ status_polls' = status_polls
             /\ chat_session' = chat_session
             /\ pc' \in {"Failed", "Idle", "FilesUploading"}]_vars

\* the first of two files was rejected: the second was never uploaded
C14_Witness ==
  /\ pc = "Failed"
  /\ failure.kind = "ProviderRejected"
  /\ Len(lender_paths) = 2
  /\ uploads = <<>>
  /\ effects.uploads = 1
  /\ upload_cache[lender_paths[2]] = NoEntry

(***************************************************************************)
(* The upload cache when uploads fail (SpecRecache)                        *)
(***************************************************************************)
\* queries of one broker on one lender, named once or twice, whose PDF is
\* modified now and then
RecacheInputs ==
  { <<"(","A","c",")"," ","q","?">>,
    <<"(","A","c",","," ","a","c",")"," ","q","?">> }

\* an upload is refused, or gives a file that is found active, or one that
\* is found failed
UploadResults ==
  { Outcome(Exc("Exception", "ProviderCallFailed", <<"quota exceeded">>, <<>>),
            "NONE", None),
    Outcome(NoExc, "ACTIVE", None),
    Outcome(NoExc, "FAILED", None) }

NextRecache ==
  \/ Login(BrokerEmail, DEFAULT_PASSWORD)
  \/ \E m \in 0..MaxMtime : Touch(DirListing[1], m)
  \/ \E raw \in RecacheInputs : Submit(raw, <<>>)
  \/ \E result \in UploadResults : UploadCall(result)
  \/ WaitExit
  \/ UploadStore
  \/ UploadFail
  \/ EnsureChat
  \/ \E result \in ReplyResults : SendMessage(result)

SpecRecache == Init /\ [][NextRecache]_vars

\* the cache is written only when wait_for_file_active has returned, with
\* the handle returned and the modification time read before the upload,
\* for the path of the call alone
WrittenAfterWait ==
  upload_cache' # upload_cache =>
    /\ pc = "WaitReturned"
    /\ upload_cache' = [upload_cache EXCEPT ![NextPath] =
                          [file |-> current, mtime |-> path_mtime]]

\* a cached handle is one that wait_for_file_active returned
CachedHandlesReady ==
  \A p \in Paths :
    upload_cache[p] # NoEntry
      => /\ ~StillProcessing(upload_cache[p].file)
         /\ ~NotActive(upload_cache[p].file)
         /\ upload_cache[p].file.display_name = p

\* a call of upload_pdf_with_cache whose upload or wait fails leaves the
\* cache as it was
FailureLeavesCache ==
  (pc \in {"FilesUploading", "Waiting", "WaitRaised"} /\ pc' = "Failed")
    => upload_cache' = upload_cache

\* the last call on the path failed in the upload or in the wait
LastCallFailed(p) ==
  /\ last_call[p].called
  /\ last_call[p].uploaded
  /\ ~last_call[p].returned

\* C15, as claimed: the cache is written only after the wait succeeded; a
\* failed upload or wait leaves the cache as it was, so that a cached
\* handle is always one that passed the wait, and the next call on the path
\* uploads afresh.
C15_FailedCallUploadsAfresh ==
  /\ [](CachedHandlesReady)
  /\ [][WrittenAfterWait /\ FailureLeavesCache]_vars
  /\ [][(CallStep /\ LastCallFailed(NextPath))
          => upload_calls' = upload_calls + 1]_vars

\* C15, amended: the cache is written only after the wait succeeded; a
\* failed upload or wait leaves the cache as it was, so that a cached
\* handle is always one that passed the wait, and the next call on the path
\* uploads afresh when the modification time is the one the failed call
\* read, or any other than that of an entry stored before.
C15_FailedCallUploadsAfreshUnlessCached ==
  /\ [](CachedHandlesReady)
  /\ [][WrittenAfterWait /\ FailureLeavesCache]_vars
  /\ [][(CallStep /\ LastCallFailed(NextPath))
          => /\ last_call[NextPath].mtime = mtime[NextPath]
                  => upload_calls' = upload_calls + 1
             /\ upload_cache[NextPath].mtime # mtime[NextPath]
                  => upload_calls' = upload_calls + 1]_vars

\* after a failed call that left an older entry in the cache, the PDF was
\* uploaded again and the entry replaced
C15_Witness ==
  /\ pc = "FilesUploading"
  /\ upload_calls = 3
  /\ Len(interaction_logs) = 1
  /\ interaction_logs[1].error # None
  /\ upload_cache[DirListing[1]].file.name = 3

(***************************************************************************)
(* The turn sent to the model (SpecTurn)                                   *)
(***************************************************************************)
\* queries of one broker that name a lender twice, or a lender that has no
\* PDF, while the PDF of the first lender is rewritten
TurnInputs ==
  { <<"(","A","c",","," ","m"," ","f",","," ","a","c",")"," ","q","?">>,
    <<"(","A","c",","," ","z","z",")"," ","q","?">> }

NextTurn ==
  \/ Login(BrokerEmail, DEFAULT_PASSWORD)
  \/ \E m \in 0..MaxMtime : Touch(DirListing[1], m)
  \/ \E raw \in TurnInputs : Submit(raw, <<>>)
  \/ \E result \in UploadResults : UploadCall(result)
  \/ WaitExit
  \/ UploadStore
  \/ UploadFail
  \/ EnsureChat
  \/ \E result \in ReplyResults : SendMessage(result)

SpecTurn == Init /\ [][NextTurn]_vars

\* the step of chat.send_message
TurnSent == pc = "ModelCalling" /\ pc' # "ModelCalling"

\* the parts of the turn: for each lender token, in order, the handle
\* obtained for its PDF, which passed the wait; then one text, the
\* instruction followed by the question
PartsInOrder ==
  LET parts == effects.parts
      n == Len(lenders)
  IN  /\ Len(parts) = n + 1
      /\ \A i \in 1..n :
           /\ parts[i].kind = "file"
           /\ parts[i].file = uploads[i]
           /\ parts[i].file.display_name =
                lender_index[normalize_lender_key(lenders[i])]
           /\ ~NotActive(parts[i].file)
      /\ parts[n + 1].kind = "text"
      /\ parts[n + 1].text =
           LEX_SYSTEM_PROMPT \o <<"\n", "\n", "User Question: ">> \o question

\* the PDFs of the query
QueryPaths == { lender_paths[i] : i \in DOMAIN lender_paths }

\* the parts of a lender named twice are one handle, and no PDF was
\* uploaded twice for the query
UploadedOnceEach ==
  /\ \A i, j \in DOMAIN lender_paths :
       lender_paths[i] = lender_paths[j]
         => effects.parts[i].file = effects.parts[j].file
  /\ effects.uploads <= Cardinality(QueryPaths)

\* the positions before the next one that name the same PDF
EarlierCalls == { i \in DOMAIN uploads : lender_paths[i] = NextPath }

\* the next call is for a PDF that the query has a handle of already, and
\* whose modification time is still the one recorded with it
NamedAgainUnchanged ==
  /\ CallStep
  /\ EarlierCalls # {}
  /\ upload_cache[NextPath].mtime = mtime[NextPath]

\* the call uploads nothing and gives the handle of the earlier position
HandleReused ==
  LET last == CHOOSE i \in EarlierCalls : \A k \in EarlierCalls : k <= i
  IN  /\ upload_calls' = upload_calls
      /\ effects'.uploads = effects.uploads
      /\ uploads' = Append(uploads, uploads[last])

\* one turn for a query that reaches ModelCalling, none for a query that
\* fails before
OneTurn ==
  /\ [](effects.sends <= 1)
  /\ [](pc = "Answered" => effects.sends = 1)
  /\ [](pc \in {"LendersResolving", "FilesUploading", "Waiting",
                "WaitReturned", "WaitRaised", "ModelCalling"}
          => effects.sends = 0)
  /\ [][TurnSent => effects'.sends = 1 /\ PartsInOrder']_vars
  /\ [][(pc \notin {"ModelCalling", "Failed"} /\ pc' = "Failed")
          => effects'.sends = 0]_vars
  /\ [][(AtRest /\ effects'.sends # effects.sends)
          => (queries' = queries + 1 /\ effects'.sends = 0)]_vars

\* C16, as claimed: a query that reaches ModelCalling sends one turn and
\* never another; its parts are the handles of the lender tokens in order,
\* then the instruction and question as the one text; a lender named twice
\* has the same handle twice and its PDF is uploaded at most once; a query
\* that fails before ModelCalling sends no turn.
C16_OneTurnUploadedOnce ==
  /\ OneTurn
  /\ [][TurnSent => UploadedOnceEach']_vars

\* C16, amended: as above, except that a lender named again has the handle
\* of its earlier position, without an upload, when the modification time
\* of its PDF is still the one recorded with that handle.
C16_OneTurnUploadedOnceIfUnchanged ==
  /\ OneTurn
  /\ [][NamedAgainUnchanged => HandleReused]_vars

\* a turn was sent for three tokens, the first and the last naming one
\* lender: four parts, the handle of the one upload of its PDF at the first
\* and the third place, then the text
C16_Witness ==
  /\ pc = "Answered"
  /\ effects.sends = 1
  /\ effects.uploads = 2
  /\ Len(lenders) = 3
  /\ Len(effects.parts) = 4
  /\ effects.parts[1] = effects.parts[3]
  /\ effects.parts[1].kind = "file"
  /\ effects.parts[2].file.display_name = DirListing[2]
  /\ effects.parts[4].kind = "text"

(***************************************************************************)
(* Termination of wait_for_file_active (SpecWaitFair)                      *)
(***************************************************************************)
\* the call goes on as long as it has a step to take: the sleep ends and
\* the status request is answered or raises
SpecWaitFair == SpecWait /\ WF_vars(NextWait)

\* the number of status requests of a call with the given timeout
PollsBounded == status_polls <= (timeout \div PollInterval) + 1

\* the handle is returned
WaitReturnedHandle == pc = "WaitReturned" /\ raised = NoExc

\* the exception the call ends with is of one of the kinds
WaitRaisedOneOf(kinds) == pc = "WaitRaised" /\ raised.kind \in kinds

\* C17, as claimed: wait_until_active terminates, even when the provider
\* reports PROCESSING at every poll; with timeout T it makes at most
\* floor(T/2) + 1 status polls, and then returns the handle or fails with
\* ProviderRejected or with Timeout.
C17_TerminatesThreeWays ==
  /\ <>WaitOver
  /\ [](PollsBounded)
  /\ [](WaitOver => \/ WaitReturnedHandle
                    \/ WaitRaisedOneOf({"ProviderRejected", "Timeout"}))

\* C17, amended: wait_until_active terminates, even when the provider
\* reports PROCESSING at every poll; with timeout T it makes at most
\* floor(T/2) + 1 status polls, and then returns the handle, fails with
\* ProviderRejected or with Timeout, or passes on the exception that a
\* status poll raised.
C17_TerminatesFourWays ==
  /\ <>WaitOver
  /\ [](PollsBounded)
  /\ [](WaitOver => \/ WaitReturnedHandle
                    \/ WaitRaisedOneOf({"ProviderRejected", "Timeout"})
                    \/ /\ WaitRaisedOneOf({"ProviderCallFailed"})
                       /\ status_polls >= 1
                       /\ raised \in ProviderExceptions)
  /\ [][WaitOver => UNCHANGED <<status_polls, elapsed, pc, raised>>]_vars

\* the provider reported PROCESSING at every poll of a call with the
\* largest timeout: the call made floor(T/2) + 1 polls and timed out
C17_Witness ==
  /\ pc = "WaitRaised"
  /\ raised.kind = "Timeout"
  /\ timeout = MaxTimeout
  /\ elapsed = PollInterval * status_polls
  /\ status_polls = (timeout \div PollInterval) + 1

(***************************************************************************)
(* Login, logout and the admin dashboard (SpecAuth)                        *)
(***************************************************************************)
\* what is typed in the login form: a broker, admins in either letter
\* case, an address that has the admin domain before its end, and nothing
AuthEmails ==
  Emails \cup { <<"A","@","A","D","M","I","N",".","L","E","X">>,
                <<"a","@","a","d","m","i","n",".","l","e","x",".","c">> }

\* prompts that are answered with an error at once
AuthInputs == { <<"(","z","z",")">>, <<"q","?">> }

NextAuth ==
  \/ \E email \in AuthEmails, password \in Passwords : Login(email, password)
  \/ Logout
  \/ ToggleAdmin
  \/ ClearLogs
  \/ \E raw \in AuthInputs : Submit(raw, <<>>)

SpecAuth == Init /\ [][NextAuth]_vars

\* main() and main_chat_interface: the page that is rendered
Page ==
  IF ~authenticated THEN "auth"
  ELSE IF show_admin /\ is_admin THEN "admin"
  ELSE "chat"

\* the identity is privileged: lower-cased, it ends with the admin domain
Privileged(email) ==
  email # None /\ EndsWith(Lower(email), ADMIN_EMAIL_DOMAIN)

\* C18: whatever the logins, logouts and toggles of the admin dashboard
\* before, the admin log view is rendered only while the identity logged in
\* is privileged, and the main interface only while somebody is logged in
\* under a non-empty identity.
C18_AdminViewOnlyForPrivileged ==
  /\ Page = "admin" => (authenticated /\ Privileged(user_email))
  /\ Page \in {"admin", "chat"}
       => (authenticated /\ Truthy(user_email) /\ user_email = Lower(user_email))
  /\ authenticated => (is_admin <=> Privileged(user_email))

\* an admin opened the dashboard and logged out, and a broker logged in:
\* the dashboard is still switched on, and the chat is rendered
C18_Witness ==
  /\ authenticated
  /\ user_email = BrokerEmail
  /\ show_admin
  /\ ~is_admin
  /\ Page = "chat"

=============================================================================
